---- MODULE Spec2Model ----
(***************************************************************************)
(* Model of library.py: a menu-driven catalogue of books kept in a dict   *)
(* {"books": [...], "next_id": n} and persisted wholesale to library.json *)
(* after every successful mutation.                                        *)
(*                                                                         *)
(* Python strings are sequences of one-character strings, so that strip(), *)
(* int(), str.isdigit() and the JSON text are computed and not assumed.    *)
(***************************************************************************)
EXTENDS Integers, Sequences, FiniteSets, TLC

(* ------------------------------ bounds -------------------------------- *)
\* largest id add_book may hand out in a run
MaxId == 2
\* last minute the wall clock reaches
MaxClock == 1
\* menu actions run in one history
MaxOps == 3

(* ------------------------------ strings ------------------------------- *)
Digits == <<"0", "1", "2", "3", "4", "5", "6", "7", "8", "9">>

DigitSet == {Digits[i] : i \in 1..Len(Digits)}

DigitVal(c) == (CHOOSE i \in 1..Len(Digits) : Digits[i] = c) - 1

RECURSIVE LStrip(_)
LStrip(s) == IF s # <<>> /\ Head(s) = " " THEN LStrip(Tail(s)) ELSE s

RECURSIVE RStrip(_)
RStrip(s) ==
    IF s # <<>> /\ s[Len(s)] = " " THEN RStrip(SubSeq(s, 1, Len(s) - 1)) ELSE s

\* prompt(): input(msg).strip(), typed being the line the user entered
prompt(typed) == RStrip(LStrip(typed))

\* str.isdigit(): non-empty and every character a digit
isdigit(s) == s # <<>> /\ \A i \in 1..Len(s) : s[i] \in DigitSet

\* the text without an optional leading sign, as int() reads it
Unsigned(s) == IF s # <<>> /\ Head(s) \in {"+", "-"} THEN Tail(s) ELSE s

\* int(s) does not raise ValueError
IntOk(s) == isdigit(Unsigned(s))

RECURSIVE NatOf(_)
NatOf(s) ==
    IF s = <<>> THEN 0 ELSE 10 * NatOf(SubSeq(s, 1, Len(s) - 1)) + DigitVal(s[Len(s)])

\* int(s), for a text int() accepts
int(s) == IF s # <<>> /\ Head(s) = "-" THEN 0 - NatOf(Unsigned(s)) ELSE NatOf(Unsigned(s))

\* datetime.now().strftime("%Y-%m-%d %H:%M") at minute c of the run
now(c) == <<"0", "0", ":", Digits[(c \div 10) + 1], Digits[(c % 10) + 1]>>

(* --------------------------- the JSON text ----------------------------- *)
\* A document is the sequence of lexemes json.dump writes; separators and
\* indentation carry no content and are left out.
Punct(p) == [t |-> p]

KeyTok(name) == [t |-> "key", k |-> name]

IntTok(i) == [t |-> "int", n |-> i]

StrTok(str) == [t |-> "str", s |-> str]

BoolTok(b) == [t |-> IF b THEN "true" ELSE "false"]

\* key order of the dict literal in add_book
BookKeys ==
    <<"id", "title", "author", "year", "available", "borrower",
      "borrowed_at", "returned_at", "created_at", "updated_at">>

StrKeys ==
    {"title", "author", "year", "borrower",
     "borrowed_at", "returned_at", "created_at", "updated_at"}

HasKey(d, key) == key \in DOMAIN d

\* the lexeme of one scalar member value
DumpScalar(key, v) ==
    IF key = "available" THEN BoolTok(v)
    ELSE IF key \in StrKeys THEN StrTok(v)
    ELSE IntTok(v)

RECURSIVE DumpMembers(_, _, _)
DumpMembers(b, keys, i) ==
    IF i > Len(keys) THEN <<>>
    ELSE (IF HasKey(b, keys[i])
            THEN <<KeyTok(keys[i]), DumpScalar(keys[i], b[keys[i]])>>
            ELSE <<>>)
         \o DumpMembers(b, keys, i + 1)

DumpBook(b) == <<Punct("{")>> \o DumpMembers(b, BookKeys, 1) \o <<Punct("}")>>

RECURSIVE DumpBooks(_)
DumpBooks(bs) == IF bs = <<>> THEN <<>> ELSE DumpBook(Head(bs)) \o DumpBooks(Tail(bs))

\* json.dump(db, f, indent=2): the whole text of the document
JsonDump(d) ==
    <<Punct("{")>>
    \o (IF HasKey(d, "books")
          THEN <<KeyTok("books"), Punct("[")>> \o DumpBooks(d.books) \o <<Punct("]")>>
          ELSE <<>>)
    \o (IF HasKey(d, "next_id") THEN <<KeyTok("next_id"), IntTok(d.next_id)>> ELSE <<>>)
    \o <<Punct("}")>>

\* A parse result: ok (no JSONDecodeError), the value, and the next position.
Fail == [ok |-> FALSE, val |-> 0, pos |-> 0]

Got(v, p) == [ok |-> TRUE, val |-> v, pos |-> p]

TokAt(toks, i) == IF i \in 1..Len(toks) THEN toks[i] ELSE Punct("eof")

RECURSIVE ParseValue(_, _)
RECURSIVE ParseArray(_, _, _)
RECURSIVE ParseObject(_, _, _)

\* one JSON value starting at lexeme i
ParseValue(toks, i) ==
    LET tk == TokAt(toks, i) IN
    CASE tk.t = "int" -> Got(tk.n, i + 1)
      [] tk.t = "str" -> Got(tk.s, i + 1)
      [] tk.t \in {"true", "false"} -> Got(tk.t = "true", i + 1)
      [] tk.t = "[" -> ParseArray(toks, i + 1, <<>>)
      [] tk.t = "{" -> ParseObject(toks, i + 1, <<>>)
      [] OTHER -> Fail

\* the elements of an array up to its closing bracket
ParseArray(toks, i, acc) ==
    IF TokAt(toks, i).t = "]" THEN Got(acc, i + 1)
    ELSE LET e == ParseValue(toks, i) IN
         IF e.ok THEN ParseArray(toks, e.pos, Append(acc, e.val)) ELSE Fail

\* the members of an object up to its closing brace; acc is the list of
\* <<key, value>> pairs read so far
ParseObject(toks, i, acc) ==
    LET tk == TokAt(toks, i) IN
    IF tk.t = "}"
      THEN Got([key \in {acc[j][1] : j \in 1..Len(acc)} |->
                  LET last == CHOOSE j \in 1..Len(acc) :
                                /\ acc[j][1] = key
                                /\ \A m \in 1..Len(acc) : acc[m][1] = key => m <= j
                  IN acc[last][2]],
               i + 1)
    ELSE IF tk.t = "key"
      THEN LET e == ParseValue(toks, i + 1) IN
           IF e.ok THEN ParseObject(toks, e.pos, Append(acc, <<tk.k, e.val>>)) ELSE Fail
    ELSE Fail

\* json.load(f): the value of the whole text, or JSONDecodeError
JsonLoad(toks) ==
    LET r == ParseValue(toks, 1) IN
    IF r.ok /\ r.pos = Len(toks) + 1 THEN r ELSE Fail

(* ------------------------------ storage ------------------------------- *)
\* the backing document library.json: absent, or a text
NoFile == [exists |-> FALSE, text |-> <<>>]

\* load_db() found no file: the fresh store
FreshDb == [books |-> <<>>, next_id |-> 1]

\* the dict d with d[key] = v (the key is added when absent)
SetKey(d, key, v) == [x \in (DOMAIN d) \cup {key} |-> IF x = key THEN v ELSE d[x]]

\* a file opened with mode "a" keeps its text
OpenForAppending(f) == [exists |-> TRUE, text |-> f.text]

\* open(DB_FILE, "w"): the file exists and is empty
OpenForWriting(f) == [exists |-> TRUE, text |-> <<>>]

\* f.write(chunk) for the chunks json.dump produces: the text grows at its end
Write(f, chunks) == [f EXCEPT !.text = @ \o chunks]

\* save_db(db), run to completion on the file f
save_db(f, d) == Write(OpenForWriting(f), JsonDump(d))

\* How much of a text of n lexemes has reached the file when the process is
\* killed inside save_db: nothing, half of it, or all but the end.
CutPoints(n) == {0, n \div 2, n - 1}

\* the files a process killed inside save_db(db) can leave behind
TornFiles(f, d) ==
    {Write(OpenForWriting(f), SubSeq(JsonDump(d), 1, n)) : n \in CutPoints(Len(JsonDump(d)))}

\* load_db(): ok is FALSE when json.load raises JSONDecodeError
load_db(f) ==
    IF ~f.exists THEN [ok |-> TRUE, db |-> FreshDb]
    ELSE LET r == JsonLoad(f.text) IN
         IF r.ok THEN [ok |-> TRUE, db |-> r.val] ELSE [ok |-> FALSE, db |-> <<>>]

(* ------------------------------ helpers ------------------------------- *)
\* db.get("next_id", 1)
NextIdOf(d) == IF HasKey(d, "next_id") THEN d.next_id ELSE 1

\* an id taken from the number of books in the store
NewIdByCount(d) == IF HasKey(d, "books") THEN Len(d.books) + 1 ELSE 1

\* an id taken from the largest id among the books in the store
NewIdAfterLargest(d) ==
    IF HasKey(d, "books") /\ d.books # <<>>
      THEN 1 + CHOOSE m \in {d.books[i].id : i \in 1..Len(d.books)} :
                 \A i \in 1..Len(d.books) : d.books[i].id <= m
      ELSE 1

\* next_id(db): the id it returns
NewId(d) == NextIdOf(d)

\* a counter that is read and not advanced
next_id_stuck(d) == SetKey(d, "next_id", NextIdOf(d))

\* next_id(db): the dict after the call
next_id(d) == SetKey(d, "next_id", NextIdOf(d) + 1)

\* find_by_id(db, bid): position of the first book with that id, 0 for None
find_by_id(d, bid) ==
    IF \E i \in 1..Len(d.books) : d.books[i].id = bid
      THEN CHOOSE i \in 1..Len(d.books) :
             /\ d.books[i].id = bid
             /\ \A j \in 1..(i - 1) : d.books[j].id # bid
      ELSE 0

\* [b for b in db["books"] if b["id"] < bid]
RECURSIVE UpToId(_, _)
UpToId(bs, bid) ==
    IF bs = <<>> THEN <<>>
    ELSE (IF Head(bs).id < bid THEN <<Head(bs)>> ELSE <<>>) \o UpToId(Tail(bs), bid)

\* [b for b in db["books"] if b["id"] != bid]
RECURSIVE WithoutId(_, _)
WithoutId(bs, bid) ==
    IF bs = <<>> THEN <<>>
    ELSE (IF Head(bs).id # bid THEN <<Head(bs)>> ELSE <<>>) \o WithoutId(Tail(bs), bid)

(* ------------------------------ actions ------------------------------- *)
\* What one menu action does: the dict afterwards, whether save_db was
\* called, the message printed, the name the message carries, and whether
\* an uncaught exception ended the process.
Res(d, saved, msg) == [db |-> d, save |-> saved, msg |-> msg, who |-> <<>>, dead |-> FALSE]

Raise(d, exc) == [db |-> d, save |-> FALSE, msg |-> exc, who |-> <<>>, dead |-> TRUE]

NewBook(id, title, author, year, t1, t2) ==
    [id |-> id, title |-> title, author |-> author, year |-> year,
     available |-> TRUE, borrower |-> <<>>, borrowed_at |-> <<>>, returned_at |-> <<>>,
     created_at |-> now(t1), updated_at |-> now(t2)]

\* add_book drawing the id before it validates the form
add_book_early_id(d, typedTitle, typedAuthor, typedYear, t1, t2) ==
    LET title == prompt(typedTitle)
        author == prompt(typedAuthor)
        year == prompt(typedYear)
        d1 == next_id(d)
    IN
    IF title = <<>> \/ author = <<>> \/ year = <<>>
      THEN Res(d1, FALSE, "All fields are required.")
    ELSE IF ~IntOk(year) THEN Res(d1, FALSE, "Year must be a number.")
    ELSE IF ~HasKey(d, "books") THEN Raise(d1, "KeyError")
    ELSE Res([d1 EXCEPT !.books = Append(@, NewBook(NewId(d), title, author, year, t1, t2))],
             TRUE, "Book added.")

\* add_book(db); t1, t2 are the minutes the two now() calls read
add_book(d, typedTitle, typedAuthor, typedYear, t1, t2) ==
    LET title == prompt(typedTitle)
        author == prompt(typedAuthor)
        year == prompt(typedYear)
    IN
    IF title = <<>> \/ author = <<>> \/ year = <<>>
      THEN Res(d, FALSE, "All fields are required.")
    ELSE IF ~IntOk(year) THEN Res(d, FALSE, "Year must be a number.")
    ELSE IF ~HasKey(d, "books") THEN Raise(next_id(d), "KeyError")
    ELSE LET book == NewBook(NewId(d), title, author, year, t1, t2)
             d1 == next_id(d)
         IN Res([d1 EXCEPT !.books = Append(@, book)], TRUE, "Book added.")

\* an update that builds the record anew from the three fields
ReviseAsNew(b, new_title, new_author, new_year, t1) ==
    [NewBook(b.id, new_title, new_author, new_year, t1, t1) EXCEPT
       !.created_at = b.created_at]

\* the assignments of a successful update_book
Revise(b, new_title, new_author, new_year, t1) ==
    [b EXCEPT !.title = new_title, !.author = new_author, !.year = new_year,
              !.updated_at = now(t1)]

\* update_book(db)
update_book(d, typedId, typedTitle, typedAuthor, typedYear, t1) ==
    IF ~IntOk(prompt(typedId)) THEN Res(d, FALSE, "Please enter a number.")
    ELSE IF ~HasKey(d, "books") THEN Raise(d, "KeyError")
    ELSE LET i == find_by_id(d, int(prompt(typedId))) IN
         IF i = 0 THEN Res(d, FALSE, "ID not found.")
         ELSE LET b == d.books[i]
                  new_title == IF prompt(typedTitle) # <<>> THEN prompt(typedTitle) ELSE b.title
                  new_author ==
                      IF prompt(typedAuthor) # <<>> THEN prompt(typedAuthor) ELSE b.author
                  new_year == IF prompt(typedYear) # <<>> THEN prompt(typedYear) ELSE b.year
              IN
              IF new_year # <<>> /\ ~isdigit(new_year)
                THEN Res(d, FALSE, "Year must be numeric.")
              ELSE Res([d EXCEPT !.books[i] = Revise(b, new_title, new_author, new_year, t1)],
                       TRUE, "Updated.")

\* delete_book closing the gap in the ids: the counter restarts after the
\* largest id left
delete_book_renumber(d, typedId) ==
    IF ~IntOk(prompt(typedId)) THEN Res(d, FALSE, "Please enter a number.")
    ELSE IF ~HasKey(d, "books") THEN Raise(d, "KeyError")
    ELSE LET kept == WithoutId(d.books, int(prompt(typedId))) IN
         IF Len(kept) < Len(d.books)
           THEN Res([d EXCEPT !.books = kept,
                              !.next_id = IF kept = <<>> THEN 1 ELSE kept[Len(kept)].id + 1],
                    TRUE, "Deleted.")
           ELSE Res([d EXCEPT !.books = kept], FALSE, "ID not found.")

\* delete_book that forgets save_db
delete_book_unsaved(d, typedId) ==
    IF ~IntOk(prompt(typedId)) THEN Res(d, FALSE, "Please enter a number.")
    ELSE IF ~HasKey(d, "books") THEN Raise(d, "KeyError")
    ELSE Res([d EXCEPT !.books = WithoutId(d.books, int(prompt(typedId)))], FALSE,
             IF Len(WithoutId(d.books, int(prompt(typedId)))) < Len(d.books)
               THEN "Deleted." ELSE "ID not found.")

\* delete_book(db)
delete_book(d, typedId) ==
    IF ~IntOk(prompt(typedId)) THEN Res(d, FALSE, "Please enter a number.")
    ELSE IF ~HasKey(d, "books") THEN Raise(d, "KeyError")
    ELSE LET kept == WithoutId(d.books, int(prompt(typedId))) IN
         IF Len(kept) < Len(d.books)
           THEN Res([d EXCEPT !.books = kept], TRUE, "Deleted.")
           ELSE Res([d EXCEPT !.books = kept], FALSE, "ID not found.")

\* the assignments of a successful borrow_book
Lend(b, borrower, t1, t2) ==
    [b EXCEPT !.available = FALSE, !.borrower = borrower, !.borrowed_at = now(t1),
              !.returned_at = <<>>, !.updated_at = now(t2)]

\* borrow_book without the test of b["available"]
borrow_book_overwrites(d, typedId, typedName, t1, t2) ==
    IF ~IntOk(prompt(typedId)) THEN Res(d, FALSE, "Please enter a number.")
    ELSE IF ~HasKey(d, "books") THEN Raise(d, "KeyError")
    ELSE LET i == find_by_id(d, int(prompt(typedId))) IN
         IF i = 0 THEN Res(d, FALSE, "ID not found.")
         ELSE IF prompt(typedName) = <<>> THEN Res(d, FALSE, "Borrower name required.")
         ELSE Res([d EXCEPT !.books[i] = Lend(@, prompt(typedName), t1, t2)],
                  TRUE, "Borrowed.")

\* borrow_book asking for the borrower's name before it looks at the book
borrow_book_name_first(d, typedId, typedName, t1, t2) ==
    IF ~IntOk(prompt(typedId)) THEN Res(d, FALSE, "Please enter a number.")
    ELSE IF ~HasKey(d, "books") THEN Raise(d, "KeyError")
    ELSE LET i == find_by_id(d, int(prompt(typedId))) IN
         IF i = 0 THEN Res(d, FALSE, "ID not found.")
         ELSE IF prompt(typedName) = <<>> THEN Res(d, FALSE, "Borrower name required.")
         ELSE IF ~d.books[i].available
           THEN [Res(d, FALSE, "Already borrowed by") EXCEPT !.who = d.books[i].borrower]
         ELSE Res([d EXCEPT !.books[i] = Lend(@, prompt(typedName), t1, t2)],
                  TRUE, "Borrowed.")

\* borrow_book(db)
borrow_book(d, typedId, typedName, t1, t2) ==
    IF ~IntOk(prompt(typedId)) THEN Res(d, FALSE, "Please enter a number.")
    ELSE IF ~HasKey(d, "books") THEN Raise(d, "KeyError")
    ELSE LET i == find_by_id(d, int(prompt(typedId))) IN
         IF i = 0 THEN Res(d, FALSE, "ID not found.")
         ELSE IF ~d.books[i].available
           THEN [Res(d, FALSE, "Already borrowed by") EXCEPT !.who = d.books[i].borrower]
         ELSE IF prompt(typedName) = <<>> THEN Res(d, FALSE, "Borrower name required.")
         ELSE Res([d EXCEPT !.books[i] = Lend(@, prompt(typedName), t1, t2)],
                  TRUE, "Borrowed.")

\* a return that leaves the borrower's name in place
GiveBackKeepingName(b, t1, t2) ==
    [b EXCEPT !.available = TRUE, !.returned_at = now(t1), !.updated_at = now(t2)]

\* a return that also clears the date of the loan
GiveBackForgettingLoan(b, t1, t2) ==
    [b EXCEPT !.available = TRUE, !.returned_at = now(t1), !.borrower = <<>>,
              !.borrowed_at = <<>>, !.updated_at = now(t2)]

\* the assignments of a successful return_book
GiveBack(b, t1, t2) ==
    [b EXCEPT !.available = TRUE, !.returned_at = now(t1), !.borrower = <<>>,
              !.updated_at = now(t2)]

\* return_book putting the returned book back at the end of the list
return_book_reshelves(d, typedId, t1, t2) ==
    IF ~IntOk(prompt(typedId)) THEN Res(d, FALSE, "Please enter a number.")
    ELSE IF ~HasKey(d, "books") THEN Raise(d, "KeyError")
    ELSE LET i == find_by_id(d, int(prompt(typedId))) IN
         IF i = 0 THEN Res(d, FALSE, "ID not found.")
         ELSE IF d.books[i].available
           THEN Res(d, FALSE, "This book is already available.")
         ELSE Res([d EXCEPT !.books = Append(WithoutId(@, d.books[i].id),
                                             GiveBack(d.books[i], t1, t2))],
                  TRUE, "Returned.")

\* return_book(db)
return_book(d, typedId, t1, t2) ==
    IF ~IntOk(prompt(typedId)) THEN Res(d, FALSE, "Please enter a number.")
    ELSE IF ~HasKey(d, "books") THEN Raise(d, "KeyError")
    ELSE LET i == find_by_id(d, int(prompt(typedId))) IN
         IF i = 0 THEN Res(d, FALSE, "ID not found.")
         ELSE IF d.books[i].available
           THEN Res(d, FALSE, "This book is already available.")
         ELSE Res([d EXCEPT !.books[i] = GiveBack(@, t1, t2)], TRUE, "Returned.")

\* str.lower() on the letters the model types
Upper == <<"A", "B", "D", "H", "N">>

Lower == <<"a", "b", "d", "h", "n">>

LowerChar(c) ==
    IF \E i \in 1..Len(Upper) : Upper[i] = c
      THEN Lower[CHOOSE i \in 1..Len(Upper) : Upper[i] = c]
      ELSE c

lower(s) == [i \in 1..Len(s) |-> LowerChar(s[i])]

\* the characters of the lowered titles and authors, in code point order
CodePoints == <<" ", "a", "b", "d", "e", "h", "n", "o", "r", "t", "u", "w">>

\* ord(c)
Ord(c) == CHOOSE i \in 1..Len(CodePoints) : CodePoints[i] = c

\* a < b on str
RECURSIVE StrLess(_, _)
StrLess(a, b) ==
    IF b = <<>> THEN FALSE
    ELSE IF a = <<>> THEN TRUE
    ELSE IF Head(a) = Head(b) THEN StrLess(Tail(a), Tail(b))
    ELSE Ord(Head(a)) < Ord(Head(b))

\* key(x) < key(y) for key=lambda x: (x["author"].lower(), x["title"].lower())
KeyLess(x, y) ==
    \/ StrLess(lower(x.author), lower(y.author))
    \/ lower(x.author) = lower(y.author) /\ StrLess(lower(x.title), lower(y.title))

\* b put into the sorted list after every book whose key is not greater
RECURSIVE InsertByKey(_, _)
InsertByKey(bs, b) ==
    IF bs = <<>> THEN <<b>>
    ELSE IF KeyLess(b, Head(bs)) THEN <<b>> \o bs
    ELSE <<Head(bs)>> \o InsertByKey(Tail(bs), b)

RECURSIVE SortInto(_, _)
SortInto(acc, rest) ==
    IF rest = <<>> THEN acc ELSE SortInto(InsertByKey(acc, Head(rest)), Tail(rest))

\* sorted(items, key=...): a new list, stable
sorted(items) == SortInto(<<>>, items)

\* [b for b in items if b["available"]]
RECURSIVE OnlyAvailable(_)
OnlyAvailable(bs) ==
    IF bs = <<>> THEN <<>>
    ELSE (IF Head(bs).available THEN <<Head(bs)>> ELSE <<>>) \o OnlyAvailable(Tail(bs))

\* the books list_books returns
ListItems(d, only_available) == IF only_available THEN OnlyAvailable(d.books) ELSE d.books

\* the books list_books prints, in the order it prints them
Shown(d, only_available) == sorted(ListItems(d, only_available))

\* list_books ordering the list with items.sort(key=...), which on the full
\* listing is db["books"] itself
list_books_sorts_store(d, only_available) ==
    IF ~HasKey(d, "books") THEN Raise(d, "KeyError")
    ELSE IF ListItems(d, only_available) = <<>> THEN Res(d, FALSE, "(No books found.)")
    ELSE Res([d EXCEPT !.books = IF only_available THEN @ ELSE sorted(@)], FALSE, "Books")

\* list_books(db, only_available)
list_books(d, only_available) ==
    IF ~HasKey(d, "books") THEN Raise(d, "KeyError")
    ELSE IF ListItems(d, only_available) = <<>> THEN Res(d, FALSE, "(No books found.)")
    ELSE Res(d, FALSE, "Books")

\* q in s
Contains(s, q) == \E i \in 0..(Len(s) - Len(q)) : SubSeq(s, i + 1, i + Len(q)) = q

\* the books search_books prints for the keyword q
RECURSIVE Matches(_, _)
Matches(bs, q) ==
    IF bs = <<>> THEN <<>>
    ELSE (IF Contains(lower(Head(bs).title), q) \/ Contains(lower(Head(bs).author), q)
            THEN <<Head(bs)>> ELSE <<>>)
         \o Matches(Tail(bs), q)

\* search_books(db)
search_books(d, typedKeyword) ==
    IF lower(prompt(typedKeyword)) = <<>> THEN Res(d, FALSE, "Please enter a keyword.")
    ELSE IF ~HasKey(d, "books") THEN Raise(d, "KeyError")
    ELSE IF Matches(d.books, lower(prompt(typedKeyword))) = <<>>
      THEN Res(d, FALSE, "No matches.")
    ELSE Res(d, FALSE, "Results for")

\* the three counts stats prints
StatsOf(d) ==
    [total |-> Len(d.books), available |-> Len(OnlyAvailable(d.books)),
     borrowed |-> Len(d.books) - Len(OnlyAvailable(d.books))]

\* stats(db)
stats(d) == IF ~HasKey(d, "books") THEN Raise(d, "KeyError") ELSE Res(d, FALSE, "Stats")

(* --------------------------- what is typed ----------------------------- *)
Dune == <<"D", "u", "n", "e">>

Herbert == <<"H", "e", "r", "b", "e", "r", "t">>

NewAuthor == <<"N", "e", "w", " ", "A", "u", "t", "h", "o", "r">>

Ana == <<"A", "n", "a">>

Ben == <<"B", "e", "n">>

Y1965 == <<"1", "9", "6", "5">>

\* ids typed at "Enter book ID: ": every id add_book can hand out, and a non-number
TypedIds == {<<Digits[i + 1]>> : i \in 1..MaxId} \cup {<<"x">>}

\* title, author and year typed into add_book: a good form, one with another
\* author and a signed year, and one form for each way of being rejected
AddForms ==
    {<<Dune, Herbert, Y1965>>, <<Dune, Ana, <<"-", "5">> >>,
     <<<<" ">>, Herbert, Y1965>>, <<Dune, <<>>, Y1965>>, <<Dune, Herbert, <<>> >>,
     <<Dune, Herbert, <<"a", "b", "c">> >>}

\* title, author and year typed into update_book
UpdateForms ==
    {<<<<>>, <<>>, <<>> >>, <<<<>>, NewAuthor, <<>> >>, <<<<>>, <<>>, Y1965>>,
     <<<<>>, NewAuthor, <<"a", "b", "c">> >>}

TypedNames == {<<" ">>, Ana, <<" ">> \o Ben}

TypedKeywords == {<<>>, <<"D", "u", "n">>, <<"z">>}

(* ------------------------------- state -------------------------------- *)
VARIABLES
    pc,        \* "off" while the program is not running, "menu" in the loop,
               \* "dead" after an uncaught exception, "killed" inside save_db
    db,        \* the dict main() holds
    file,      \* library.json
    clock,     \* the minute datetime.now() is in
    last,      \* the last action run and what it printed
    assigned,  \* history: the ids of the books added, in the order they were added
    deleted,   \* history: the ids delete_book has removed
    ops        \* history: the number of menu actions run so far

vars == <<pc, db, file, clock, last, assigned, deleted, ops>>

\* the minutes a second now() call of the same action can read
Later(t) == {u \in {t, t + 1} : u <= MaxClock}

Report(op, r) == [op |-> op, msg |-> r.msg, who |-> r.who, saved |-> r.save]

\* main(): run one menu action to its end
Run(op, r) ==
    /\ ops < MaxOps
    /\ ops' = ops + 1
    /\ db' = r.db
    /\ file' = IF r.save THEN save_db(file, r.db) ELSE file
    /\ pc' = IF r.dead THEN "dead" ELSE "menu"
    /\ last' = Report(op, r)

Init ==
    /\ pc = "off"
    /\ db = <<>>
    /\ file = NoFile
    /\ clock = 0
    /\ last = [op |-> "none", msg |-> "", who |-> <<>>, saved |-> FALSE]
    /\ assigned = <<>>
    /\ deleted = {}
    /\ ops = 0

\* a start that writes the fresh store to library.json when it finds none
LoadCreatingDocument ==
    /\ pc # "menu"
    /\ \E r \in {load_db(file)} :
       /\ db' = r.db
       /\ pc' = IF r.ok THEN "menu" ELSE "dead"
       /\ last' = [op |-> "Load", msg |-> IF r.ok THEN "Welcome" ELSE "JSONDecodeError",
                   who |-> <<>>, saved |-> FALSE]
       /\ file' = IF file.exists THEN file ELSE save_db(file, r.db)
    /\ UNCHANGED <<clock, assigned, deleted, ops>>

\* the program is started: main() runs db = load_db()
Load ==
    /\ pc # "menu"
    /\ \E r \in {load_db(file)} :
       /\ db' = r.db
       /\ pc' = IF r.ok THEN "menu" ELSE "dead"
       /\ last' = [op |-> "Load", msg |-> IF r.ok THEN "Welcome" ELSE "JSONDecodeError",
                   who |-> <<>>, saved |-> FALSE]
    /\ UNCHANGED <<file, clock, assigned, deleted, ops>>

\* choice "1"
Create ==
    /\ pc = "menu"
    /\ \E form \in AddForms, t2 \in Later(clock) :
         \E r \in {add_book(db, form[1], form[2], form[3], clock, t2)} :
         /\ NextIdOf(r.db) <= MaxId + 1
         /\ Run("Create", r)
         /\ clock' = IF r.save THEN t2 ELSE clock
         /\ assigned' = IF r.save
                          THEN Append(assigned, r.db.books[Len(r.db.books)].id)
                          ELSE assigned
    /\ UNCHANGED deleted

\* choice "5"
Update ==
    /\ pc = "menu"
    /\ \E ti \in TypedIds, form \in UpdateForms :
         \E r \in {update_book(db, ti, form[1], form[2], form[3], clock)} :
         Run("Update", r)
    /\ UNCHANGED <<clock, assigned, deleted>>

\* choice "6"
Delete ==
    /\ pc = "menu"
    /\ \E ti \in TypedIds :
         \E r \in {delete_book(db, ti)} :
         /\ Run("Delete", r)
         /\ deleted' = IF r.save THEN deleted \cup {int(prompt(ti))} ELSE deleted
    /\ UNCHANGED <<clock, assigned>>

\* choice "7"
Borrow ==
    /\ pc = "menu"
    /\ \E ti \in TypedIds, tn \in TypedNames, t2 \in Later(clock) :
         \E r \in {borrow_book(db, ti, tn, clock, t2)} :
         /\ Run("Borrow", r)
         /\ clock' = IF r.save THEN t2 ELSE clock
    /\ UNCHANGED <<assigned, deleted>>

\* choice "8"
Return ==
    /\ pc = "menu"
    /\ \E ti \in TypedIds, t2 \in Later(clock) :
         \E r \in {return_book(db, ti, clock, t2)} :
         /\ Run("Return", r)
         /\ clock' = IF r.save THEN t2 ELSE clock
    /\ UNCHANGED <<assigned, deleted>>

\* choices "2" and "3"
List ==
    /\ pc = "menu"
    /\ \E only_available \in BOOLEAN :
         \E r \in {list_books(db, only_available)} : Run("List", r)
    /\ UNCHANGED <<clock, assigned, deleted>>

\* choice "4"
Search ==
    /\ pc = "menu"
    /\ \E tk \in TypedKeywords :
         \E r \in {search_books(db, tk)} : Run("Search", r)
    /\ UNCHANGED <<clock, assigned, deleted>>

\* choice "9"
Stats ==
    /\ pc = "menu"
    /\ \E r \in {stats(db)} : Run("Stats", r)
    /\ UNCHANGED <<clock, assigned, deleted>>

\* choice "0"
Exit ==
    /\ pc = "menu"
    /\ pc' = "off"
    /\ db' = <<>>
    /\ last' = [op |-> "Exit", msg |-> "Goodbye!", who |-> <<>>, saved |-> FALSE]
    /\ UNCHANGED <<file, clock, assigned, deleted, ops>>

\* time passes while the menu waits for input
Tick ==
    /\ clock < MaxClock
    /\ clock' = clock + 1
    /\ UNCHANGED <<pc, db, file, last, assigned, deleted, ops>>

\* the successful outcomes the menu actions can have in the current state
Saving ==
    {r \in {add_book(db, form[1], form[2], form[3], clock, clock) : form \in AddForms}
           \cup {update_book(db, ti, form[1], form[2], form[3], clock) :
                   ti \in TypedIds, form \in UpdateForms}
           \cup {delete_book(db, ti) : ti \in TypedIds}
           \cup {borrow_book(db, ti, tn, clock, clock) : ti \in TypedIds, tn \in TypedNames}
           \cup {return_book(db, ti, clock, clock) : ti \in TypedIds} :
       r.save /\ NextIdOf(r.db) <= MaxId + 1}

\* the process is killed (power loss, kill -9) while save_db is writing
KilledInSave ==
    /\ pc = "menu"
    /\ ops < MaxOps
    /\ \E r \in Saving :
         /\ file' \in TornFiles(file, r.db)
         /\ db' = r.db
         /\ last' = [op |-> "Save", msg |-> "killed", who |-> <<>>, saved |-> FALSE]
    /\ pc' = "killed"
    /\ ops' = ops + 1
    /\ UNCHANGED <<clock, assigned, deleted>>

Next ==
    \/ Load \/ Create \/ Update \/ Delete \/ Borrow \/ Return
    \/ List \/ Search \/ Stats \/ Exit \/ Tick

Spec == Init /\ [][Next]_vars

\* the same program on a machine that can lose power
NextCrash == Next \/ KilledInSave

SpecCrash == Init /\ [][NextCrash]_vars

(* ------------------- documents found at the first start ---------------- *)
\* a book a previous run left in the document
OldBook == NewBook(1, Dune, Herbert, Y1965, 0, 0)

\* library.json as the first start can find it: absent, written by a
\* previous run, written without next_id or without books, empty, cut short
FoundFiles ==
    {NoFile,
     save_db(NoFile, [books |-> <<OldBook>>, next_id |-> 2]),
     save_db(NoFile, [books |-> <<OldBook>>]),
     save_db(NoFile, [next_id |-> 2]),
     OpenForWriting(NoFile),
     Write(OpenForWriting(NoFile), <<Punct("{"), KeyTok("books"), Punct("[")>>)}

InitDisk ==
    /\ pc = "off"
    /\ db = <<>>
    /\ file \in FoundFiles
    /\ clock = 0
    /\ last = [op |-> "none", msg |-> "", who |-> <<>>, saved |-> FALSE]
    /\ assigned = <<>>
    /\ deleted = {}
    /\ ops = 0

SpecDisk == InitDisk /\ [][Next]_vars

(* ============================ properties ============================== *)
Running == pc = "menu"

\* the books in memory (none while the program is not running)
Books == IF HasKey(db, "books") THEN db.books ELSE <<>>

\* the store: the dict in memory while the menu runs, and otherwise the one
\* the next start will load
StoreOf(p, d, f) == IF p = "menu" THEN d ELSE load_db(f).db

Store == StoreOf(pc, db, file)

\* the last step was a menu action of this kind printing this message
Did(op, msg) == last.op = op /\ last.msg = msg

\* the messages of the actions that refuse what was typed
Refusals ==
    {"All fields are required.", "Year must be a number.", "Please enter a number.",
     "ID not found.", "Year must be numeric.", "Already borrowed by",
     "Borrower name required.", "This book is already available."}

\* the position of the book with this id among bs, 0 when absent
PosOf(bs, id) ==
    IF \E i \in 1..Len(bs) : bs[i].id = id
      THEN CHOOSE i \in 1..Len(bs) : bs[i].id = id
      ELSE 0

\* C1: in every state reached from the fresh store, each book is unavailable
\* exactly when its borrower is non-empty.
C1_LendingInvariant ==
    \A i \in 1..Len(Books) : (Books[i].available = FALSE) <=> (Books[i].borrower # <<>>)

\* a book has been borrowed and returned, and another action has followed
C1_Witness ==
    /\ Running
    /\ \E i \in 1..Len(Books) : Books[i].available /\ Books[i].returned_at # <<>>

\* C2: no two books of the store have the same id, and every id is below
\* next_id.
C2_UniqueIdsBelowNextId ==
    Running =>
      /\ \A i, j \in 1..Len(Books) : i # j => Books[i].id # Books[j].id
      /\ \A i \in 1..Len(Books) : Books[i].id < NextIdOf(db)

\* two books are in the store
C2_Witness == Running /\ Len(Books) = 2

\* C3: the ids of the books added form a strictly increasing sequence, deleted
\* books included, and the book a successful add_book appends is available
\* and carries the latest of them.
C3_FreshIds ==
    /\ \A i, j \in 1..Len(assigned) : i < j => assigned[i] < assigned[j]
    /\ Did("Create", "Book added.") =>
         /\ Books[Len(Books)].available
         /\ Books[Len(Books)].id = assigned[Len(assigned)]

\* a book was added, deleted, and another book added
C3_Witness ==
    /\ Did("Create", "Book added.")
    /\ Len(assigned) = 2
    /\ assigned[1] \in deleted

\* C4: a step changes next_id only when it is a successful add_book, which
\* raises it by exactly 1; every other step, a deletion, a refusal, a query,
\* leaving and starting the program included, keeps it.
C4_NextIdSteps ==
    [][\A before \in {NextIdOf(Store)}, after \in {NextIdOf(StoreOf(pc', db', file'))} :
         IF last'.op = "Create" /\ last'.msg = "Book added." /\ ops' = ops + 1
           THEN after = before + 1
           ELSE after = before]_vars

\* the only book was deleted and next_id is still 2
C4_Witness == Did("Delete", "Deleted.") /\ Books = <<>> /\ NextIdOf(db) = 2

\* C5: the lending state of a book changes only from available to borrowed by
\* a named borrower in a successful borrow_book, and from borrowed to available
\* in a successful return_book; borrowing a borrowed book is refused with the
\* current borrower's name and returning an available book is refused, both
\* leaving the store as it was.
C5_LendingTransitions ==
    /\ [][\A before \in {Store.books}, after \in {StoreOf(pc', db', file').books} :
            \A i \in 1..Len(before), j \in 1..Len(after) :
              before[i].id = after[j].id =>
                LET b == before[i]
                    c == after[j]
                IN \/ b.available = c.available /\ b.borrower = c.borrower
                   \/ /\ b.available /\ ~c.available /\ c.borrower # <<>>
                      /\ last'.op = "Borrow" /\ last'.msg = "Borrowed."
                   \/ /\ ~b.available /\ c.available /\ c.borrower = <<>>
                      /\ last'.op = "Return" /\ last'.msg = "Returned."]_vars
    /\ [](Running =>
            \A ti \in TypedIds :
              LET i == IF IntOk(prompt(ti)) THEN PosOf(Books, int(prompt(ti))) ELSE 0 IN
              /\ (i # 0 /\ ~Books[i].available) =>
                   \A tn \in TypedNames :
                     LET r == borrow_book(db, ti, tn, clock, clock) IN
                     r.msg = "Already borrowed by" /\ r.who = Books[i].borrower /\ r.db = db
              /\ (i # 0 /\ Books[i].available) =>
                   LET r == return_book(db, ti, clock, clock) IN
                   r.msg = "This book is already available." /\ r.db = db)

\* a second borrower was refused a book Ana holds
C5_Witness == Did("Borrow", "Already borrowed by") /\ last.who = Ana

\* C6: a menu action that refuses what was typed leaves the dict and the
\* document as they were and does not call save_db.
C6_RefusalsChangeNothing ==
    [][(ops' = ops + 1 /\ last'.msg \in Refusals) =>
         (db' = db /\ file' = file /\ ~last'.saved)]_vars

\* an add_book with a non-numeric year was refused on a store that has a book
C6_Witness == Did("Create", "Year must be a number.") /\ Len(Books) > 0 /\ file.exists

\* C7: between the actions of a running program the document holds exactly
\* the dict in memory, or there is no document and the store is still fresh;
\* an action that succeeded in changing the store has written it.
C7_DocumentIsStore ==
    Running =>
      /\ IF file.exists
           THEN JsonLoad(file.text).ok /\ JsonLoad(file.text).val = db
           ELSE db = FreshDb /\ assigned = <<>>
      /\ last.saved => file = save_db(file, db)

\* a deletion succeeded
C7_Witness == Running /\ Did("Delete", "Deleted.") /\ file.exists

\* C8 (as claimed): a process killed inside save_db leaves the previous
\* document or the complete new one.
C8_CrashSafeSave ==
    [][pc' = "killed" => (file' = file \/ file' = save_db(file, db'))]_vars

\* C9: for every store the program reaches, load_db after save_db returns an
\* equal dict, and a second save_db leaves the document of the first.
C9_RoundTrip ==
    Running =>
      LET saved == save_db(file, db) IN
      /\ load_db(saved) = [ok |-> TRUE, db |-> db]
      /\ save_db(saved, db) = saved

\* the program was left and started again on a store with a borrowed book
C9_Witness ==
    /\ Did("Load", "Welcome")
    /\ \E i \in 1..Len(Books) : ~Books[i].available

\* a document that is no JSON text, or lacks "books" or "next_id"
Unusable(f) ==
    /\ f.exists
    /\ \/ ~JsonLoad(f.text).ok
       \/ ~HasKey(JsonLoad(f.text).val, "books")
       \/ ~HasKey(JsonLoad(f.text).val, "next_id")

\* C10 (as claimed): load_db on an unusable document reports it without
\* ending the process and without handing a store to the menu.
C10_CorruptStoreReported ==
    (last.op = "Load" /\ Unusable(file)) => (pc # "dead" /\ pc # "menu")

\* the messages of the actions that changed the store
Successes == {"Book added.", "Updated.", "Deleted.", "Borrowed.", "Returned."}

\* C11: a start that finds no document hands the menu the store with no books
\* and next_id 1 and leaves the document absent; the document appears only in
\* a step that is a menu action which succeeded in changing the store.
C11_FreshStoreWithoutDocument ==
    /\ []((last.op = "Load" /\ ~file.exists) =>
            (Running /\ db = [books |-> <<>>, next_id |-> 1]))
    /\ [][(~file.exists /\ file'.exists) =>
            (ops' = ops + 1 /\ last'.saved /\ last'.msg \in Successes)]_vars

\* the program was started a second time and there is still no document
C11_Witness == Did("Load", "Welcome") /\ ~file.exists /\ ops > 0

\* C12 (as claimed): for every book of the store, update_book with nothing
\* typed for title, author and year prints "Updated." and keeps the three
\* fields, and with only a new author typed it changes the author alone.
C12_EmptyInputKeepsValue ==
    Running =>
      \A i \in 1..Len(Books) :
        \A kept \in {update_book(db, <<Digits[Books[i].id + 1]>>, <<>>, <<>>, <<>>, clock)},
           renamed \in {update_book(db, <<Digits[Books[i].id + 1]>>, <<>>, NewAuthor, <<>>,
                                    clock)} :
          /\ kept.msg = "Updated."
          /\ kept.db.books[i].title = Books[i].title
          /\ kept.db.books[i].author = Books[i].author
          /\ kept.db.books[i].year = Books[i].year
          /\ renamed.msg = "Updated."
          /\ renamed.db.books[i] =
               [Books[i] EXCEPT !.author = NewAuthor, !.updated_at = now(clock)]

\* what is typed at "Enter book ID: " to name the book with this id
TypedId(id) == <<Digits[id + 1]>>

\* C13: for every available book of the store, a successful borrow_book
\* followed by a successful return_book leaves the book available with no
\* borrower and with its id, title, author, year and created_at as before,
\* at the same position, and leaves every other book as it was.
C13_BorrowThenReturn ==
    Running =>
      \A i \in 1..Len(Books), tn \in {n \in TypedNames : prompt(n) # <<>>} :
        Books[i].available =>
          \A t2 \in Later(clock) : \A t3 \in Later(t2) : \A t4 \in Later(t3) :
            \A lent \in {borrow_book(db, TypedId(Books[i].id), tn, clock, t2)} :
              \A back \in {return_book(lent.db, TypedId(Books[i].id), t3, t4)} :
                /\ lent.msg = "Borrowed." /\ lent.save
                /\ back.msg = "Returned." /\ back.save
                /\ Len(back.db.books) = Len(Books)
                /\ back.db.books[i].available
                /\ back.db.books[i].borrower = <<>>
                /\ \A key \in {"id", "title", "author", "year", "created_at"} :
                     back.db.books[i][key] = Books[i][key]
                /\ \A j \in 1..Len(Books) : j # i => back.db.books[j] = Books[j]

\* a book was borrowed and then returned
C13_Witness ==
    /\ Did("Return", "Returned.")
    /\ Books[1].available
    /\ Books[1].borrowed_at # <<>>
    /\ Books[1].returned_at # <<>>

\* C14: the id of a deleted book names no book in any later state, through
\* further additions, leaving and starting the program: find_by_id finds
\* nothing, and update_book, borrow_book, return_book and delete_book print
\* "ID not found." for it.
C14_DeletedIdStaysAbsent ==
    \A d \in {Store} :
      \A id \in deleted :
        /\ find_by_id(d, id) = 0
        /\ \A form \in UpdateForms :
             update_book(d, TypedId(id), form[1], form[2], form[3], clock).msg
               = "ID not found."
        /\ \A tn \in TypedNames :
             borrow_book(d, TypedId(id), tn, clock, clock).msg = "ID not found."
        /\ return_book(d, TypedId(id), clock, clock).msg = "ID not found."
        /\ delete_book(d, TypedId(id)).msg = "ID not found."

\* book 1 was deleted and a book added after it is in the store
C14_Witness == Running /\ 1 \in deleted /\ Len(Books) = 1 /\ Books[1].id = 2

\* C15 (as claimed): the book a successful add_book appends has created_at
\* equal to updated_at, is available and has no borrower and no lending
\* dates, whatever the clock does while add_book runs.
C15_CreatedEqualsUpdated ==
    Did("Create", "Book added.") =>
      \A b \in {Books[Len(Books)]} :
        /\ b.created_at = b.updated_at
        /\ b.available
        /\ b.borrower = <<>> /\ b.borrowed_at = <<>> /\ b.returned_at = <<>>

\* C16: borrow_book on an id that names no book prints "ID not found."
\* whatever name is typed; on a borrowed book it prints "Already borrowed by"
\* with that book's borrower and changes nothing, also when no name is typed;
\* it prints "Borrower name required." only for an available book of the
\* store.
C16_BorrowFailureOrder ==
    Running =>
      \A ti \in {t \in TypedIds : IntOk(prompt(t))}, tn \in TypedNames :
        \A i \in {PosOf(Books, int(prompt(ti)))}, r \in {borrow_book(db, ti, tn, clock, clock)} :
          /\ i = 0 => r.msg = "ID not found."
          /\ (i # 0 /\ ~Books[i].available) =>
               /\ r.msg = "Already borrowed by"
               /\ r.who = Books[i].borrower
               /\ r.db = db /\ ~r.save
          /\ r.msg = "Borrower name required." =>
               (i # 0 /\ Books[i].available /\ prompt(tn) = <<>>)
          /\ (i # 0 /\ Books[i].available /\ prompt(tn) = <<>>) =>
               r.msg = "Borrower name required."

\* a borrower was refused a book Ben holds, while id 2 names no book
C16_Witness ==
    /\ Did("Borrow", "Already borrowed by")
    /\ last.who = Ben
    /\ Len(Books) = 1

\* the books of a dict (none in the empty dict of a program that is not running)
BooksIn(d) == IF HasKey(d, "books") THEN d.books ELSE <<>>

\* bs without its i-th book
Skip(bs, i) == SubSeq(bs, 1, i - 1) \o SubSeq(bs, i + 1, Len(bs))

\* the last step was a menu action of this kind printing this message
Does(op, msg) == ops' = ops + 1 /\ last'.op = op /\ last'.msg = msg

\* C17: list_books with and without the filter, search_books, find_by_id and
\* stats leave the dict as it was, books, their order and next_id, and do not
\* call save_db, so that what they show is the same when they are run again;
\* a step that is one of these menu actions changes neither the dict nor the
\* document.
C17_ReadsChangeNothing ==
    /\ [](Running =>
            /\ \A only_available \in BOOLEAN :
                 \A r \in {list_books(db, only_available)} :
                   /\ r.db = db /\ ~r.save
                   /\ Shown(r.db, only_available) = Shown(db, only_available)
                   /\ list_books(r.db, only_available) = r
            /\ \A tk \in TypedKeywords :
                 \A r \in {search_books(db, tk)} :
                   /\ r.db = db /\ ~r.save
                   /\ search_books(r.db, tk) = r
            /\ \A r \in {stats(db)} :
                 r.db = db /\ ~r.save /\ StatsOf(r.db) = StatsOf(db)
            /\ \A id \in 1..MaxId : find_by_id(db, id) = PosOf(Books, id))
    /\ [][(ops' = ops + 1 /\ last'.op \in {"List", "Search", "Stats"}) =>
            (db' = db /\ file' = file /\ ~last'.saved)]_vars

\* the full listing was printed for two books it shows in another order than
\* the store keeps them
C17_Witness ==
    /\ Did("List", "Books")
    /\ Len(Books) = 2
    /\ Shown(db, FALSE) # Books

\* C18: a successful delete_book takes exactly the book with the id typed
\* out of the list, be it available or borrowed: the other books stay as they
\* were and in their order, there is one book less, and next_id is kept.
C18_DeleteRemovesOne ==
    /\ [](Running =>
            \A i \in 1..Len(Books) :
              \A r \in {delete_book(db, TypedId(Books[i].id))} :
                /\ r.msg = "Deleted." /\ r.save
                /\ r.db.books = Skip(Books, i)
                /\ Len(r.db.books) = Len(Books) - 1
                /\ NextIdOf(r.db) = NextIdOf(db))
    /\ [][Does("Delete", "Deleted.") =>
            \E i \in 1..Len(db.books) :
              /\ db'.books = Skip(db.books, i)
              /\ deleted' = deleted \cup {db.books[i].id}
              /\ NextIdOf(db') = NextIdOf(db)]_vars

\* the first of two books was deleted and the second is still there
C18_Witness == Did("Delete", "Deleted.") /\ Len(Books) = 1 /\ Books[1].id = 2

UpdateFrame == {"id", "available", "borrower", "borrowed_at", "returned_at", "created_at"}

\* C20: a successful update_book changes only title, author, year and
\* updated_at of the book with the id typed: its other fields, its position,
\* the other books and next_id are kept, a borrowed book stays with its
\* borrower, and title and author stay non-empty.
C20_UpdateFrame ==
    /\ [](Running =>
            \A i \in 1..Len(Books), form \in UpdateForms :
              \A r \in {update_book(db, TypedId(Books[i].id), form[1], form[2], form[3],
                                     clock)} :
                r.msg = "Updated." =>
                  /\ r.save
                  /\ Len(r.db.books) = Len(Books)
                  /\ \A j \in 1..Len(Books) : j # i => r.db.books[j] = Books[j]
                  /\ \A key \in UpdateFrame : r.db.books[i][key] = Books[i][key]
                  /\ r.db.books[i].title # <<>> /\ r.db.books[i].author # <<>>
                  /\ NextIdOf(r.db) = NextIdOf(db))
    /\ [][Does("Update", "Updated.") =>
            \E i \in 1..Len(db.books) :
              /\ db' = [db EXCEPT !.books[i] =
                          [@ EXCEPT !.title = db'.books[i].title,
                                    !.author = db'.books[i].author,
                                    !.year = db'.books[i].year,
                                    !.updated_at = db'.books[i].updated_at]]
              /\ db'.books[i].title # <<>> /\ db'.books[i].author # <<>>]_vars

\* the author of a book that is out on loan was changed
C20_Witness ==
    /\ Did("Update", "Updated.")
    /\ \E i \in 1..Len(Books) :
         ~Books[i].available /\ Books[i].borrower # <<>> /\ Books[i].author = NewAuthor

====
